---------------------------- MODULE Spec2Model ----------------------------
(***************************************************************************)
(* Model of the speech-therapy backend (src/src/routes.js, the mongoose    *)
(* schemas of src/src/middleware/auth.js).                                  *)
(*                                                                          *)
(* The durable store is the `users` collection.  Every handler is cut at   *)
(* its `await`s on the store: the step that reads (findOne / findById),    *)
(* the step in which the store applies the write (save), and, for          *)
(* POST /progress, the step that resumes after the save and answers.       *)
(* Requests run in slots; a slot holds the request, the handler's local    *)
(* variables and, once the handler has answered, the response.             *)
(*                                                                          *)
(* Numbers of a request body are fixed-point: a JS number x is the integer *)
(* x * Unit, so that a non-integer such as 2.5 is representable.           *)
(*                                                                          *)
(* routes.js holds two pasted versions of the router (lines 1-257 and      *)
(* 259-446).  signup, login, forgot-password and the store part of         *)
(* POST /progress are the same in both; the model follows the first        *)
(* version, whose POST /progress and GET analytics return the summary.     *)
(***************************************************************************)
EXTENDS Integers, Sequences, FiniteSets, TLC

VARIABLES users, tokens, now, reqs, log

vars == <<users, tokens, now, reqs, log>>

-----------------------------------------------------------------------------
(* Bounds of the model *)

Unit == 2
TicksPerDay == 2
MaxNow == 2
MaxUsers == 2
MaxHist == 4
CapSubmits == 11
AuthHist == 1
ConcHist == 2
ValHist == 2

(* Program constants *)

Cap == 10
Keep == 9

-----------------------------------------------------------------------------
(* JS values of a request body *)

Num(n) == [t |-> "number", v |-> n]
Undefined == [t |-> "undefined", v |-> 0]
Null == [t |-> "null", v |-> 0]
Str == [t |-> "string", v |-> 0]
DateOf(d) == [t |-> "date", v |-> d]

Pct(n) == n * Unit

Max2(a, b) == IF a > b THEN a ELSE b

\* Array.prototype.slice(-n)
SliceLast(s, n) == SubSeq(s, Max2(1, Len(s) - n + 1), Len(s))

-----------------------------------------------------------------------------
(* models/User.js *)

NoHash == [pw |-> "", salt |-> 0]

\* bcrypt.hash(password, salt): opaque, one-way; the salt is part of the hash
Hash(pw, salt) == [pw |-> pw, salt |-> salt]

\* bcrypt.compare(password, hash)
Compare(pw, h) == h.pw = pw

NoDoc == [username |-> "", password |-> NoHash, progress |-> <<>>, v |-> 0]

\* new User({ username, password }): progress defaults to [], __v starts at 0
NewUser(username, hashed) ==
    [username |-> username, password |-> hashed, progress |-> <<>>, v |-> 0]

NoPd == [present |-> FALSE, completedExercises |-> Undefined, accuracy |-> Undefined,
         score |-> Undefined, level |-> Undefined, lastUpdated |-> Undefined]

Pd(ce, acc, sc, lv, lu) ==
    [present |-> TRUE, completedExercises |-> ce, accuracy |-> acc,
     score |-> sc, level |-> lv, lastUpdated |-> lu]

\* progressSchema casts: can every field of the body be cast to its type?
CastOk(pd) ==
    /\ pd.score.t \in {"number", "undefined"}
    /\ pd.level.t \in {"number", "undefined"}
    /\ pd.lastUpdated.t \in {"number", "undefined", "null"}

\* progressSchema: the subdocument built from the body, defaults applied to the
\* fields the body leaves undefined (lastUpdated: Date.now)
CastEntry(pd, today) ==
    [completedExercises |-> pd.completedExercises.v,
     accuracy |-> pd.accuracy.v,
     score |-> IF pd.score.t = "number" THEN pd.score.v ELSE 0,
     level |-> IF pd.level.t = "number" THEN pd.level.v ELSE Unit,
     lastUpdated |-> IF pd.lastUpdated.t = "undefined" THEN DateOf(today)
                     ELSE IF pd.lastUpdated.t = "number" THEN DateOf(pd.lastUpdated.v)
                     ELSE Null]

\* progressSchema validators (min / max), run by save()
EntryValid(e) ==
    /\ e.completedExercises >= 0
    /\ e.accuracy >= 0
    /\ e.accuracy <= Pct(100)
    /\ e.level >= Unit
    /\ e.score >= 0

ProgressValid(progress) == \A i \in 1..Len(progress) : EntryValid(progress[i])

-----------------------------------------------------------------------------
(* middleware/auth.js *)

NoToken == [kind |-> "none", userId |-> 0, username |-> "", expired |-> FALSE]
BadToken == [kind |-> "bad", userId |-> 0, username |-> "", expired |-> FALSE]

\* jwt.sign({ userId, username }, secret, { expiresIn: '1h' })
Sign(id, username) == [kind |-> "jwt", userId |-> id, username |-> username, expired |-> FALSE]

\* verifyToken: 0 when next() is called, else the status it answers with
VerifyStatus(tok) ==
    IF tok.kind = "none" THEN 401
    ELSE IF tok.kind = "bad" THEN 401
    ELSE IF tok.expired THEN 403
    ELSE 0

VerifyMessage(tok) ==
    IF tok.kind = "none" THEN "Access denied, no token provided."
    ELSE IF tok.kind = "bad" THEN "Invalid token."
    ELSE "Token expired. Please log in again."

-----------------------------------------------------------------------------
(* The analytics of routes.js *)

\* mutant: the filter compares with >= where the code has ===
CountAccAtLeast(entries, value) ==
    Len(SelectSeq(entries, LAMBDA p : p.accuracy >= value))

\* entries.filter(p => p.accuracy === value).length
CountAcc(entries, value) ==
    Len(SelectSeq(entries, LAMBDA p : p.accuracy = value))

RECURSIVE SumExercises(_)
\* entries.reduce((sum, e) => sum + (e.completedExercises || 0), 0)
SumExercises(entries) ==
    IF entries = <<>> THEN 0
    ELSE SumExercises(SubSeq(entries, 1, Len(entries) - 1))
         + entries[Len(entries)].completedExercises

RECURSIVE SumAccuracy(_)
\* entries.reduce((sum, e) => sum + (e.accuracy || 0), 0)
SumAccuracy(entries) ==
    IF entries = <<>> THEN 0
    ELSE SumAccuracy(SubSeq(entries, 1, Len(entries) - 1))
         + entries[Len(entries)].accuracy

\* the quotient sum / length as a fraction; 0 for no entries
AverageAccuracy(entries) ==
    IF Len(entries) > 0 THEN [num |-> SumAccuracy(entries), den |-> Len(entries)]
    ELSE [num |-> 0, den |-> 1]

RECURSIVE BestFrom(_, _, _)
\* entries.reduce((max, e) => (e.score > max ? e.score : max), 0)
BestFrom(entries, i, max) ==
    IF i > Len(entries) THEN max
    ELSE BestFrom(entries, i + 1, IF entries[i].score > max THEN entries[i].score ELSE max)

BestScore(entries) == BestFrom(entries, 1, 0)

RECURSIVE StreakContinues(_, _)
\* mutant: the scan skips an imperfect entry where the code breaks
StreakContinues(entries, i) ==
    IF i < 1 THEN 0
    ELSE IF entries[i].accuracy = Pct(100) THEN 1 + StreakContinues(entries, i - 1)
    ELSE StreakContinues(entries, i - 1)

RECURSIVE StreakFrom(_, _)
\* POST /progress: for (i = length - 1; i >= 0; i--) if (accuracy === 100) streak++ else break
StreakFrom(entries, i) ==
    IF i < 1 THEN 0
    ELSE IF entries[i].accuracy = Pct(100) THEN 1 + StreakFrom(entries, i - 1)
    ELSE 0

Streak(entries) == StreakFrom(entries, Len(entries))

\* date.toISOString().slice(0, 10): the day a timestamp falls on
IsoDay(ts) == ts \div TicksPerDay

\* e.lastUpdated.toISOString() throws on a null lastUpdated
DateThrows(entries) == \E i \in 1..Len(entries) : entries[i].lastUpdated.t # "date"

\* entries.filter(e => e.lastUpdated.toISOString().slice(0, 10) === today)
Todays(entries, today) ==
    SelectSeq(entries, LAMBDA e : IsoDay(e.lastUpdated.v) = today)

RECURSIVE TodayStreakContinues(_, _, _)
\* mutant: the scan skips an entry that does not count where the code breaks
TodayStreakContinues(entries, i, today) ==
    IF i < 1 THEN 0
    ELSE IF IsoDay(entries[i].lastUpdated.v) = today /\ entries[i].accuracy = Pct(100)
         THEN 1 + TodayStreakContinues(entries, i - 1, today)
    ELSE TodayStreakContinues(entries, i - 1, today)

RECURSIVE TodayStreakIgnoresDay(_, _, _)
\* mutant: the scan of the router's second version, which does not look at the day
TodayStreakIgnoresDay(entries, i, today) ==
    IF i < 1 THEN 0
    ELSE IF entries[i].accuracy = Pct(100)
         THEN 1 + TodayStreakIgnoresDay(entries, i - 1, today)
    ELSE 0

RECURSIVE TodayStreakFrom(_, _, _)
\* GET analytics: the scan also breaks on an entry of another day
TodayStreakFrom(entries, i, today) ==
    IF i < 1 THEN 0
    ELSE IF IsoDay(entries[i].lastUpdated.v) = today /\ entries[i].accuracy = Pct(100)
         THEN 1 + TodayStreakFrom(entries, i - 1, today)
    ELSE 0

TodayStreak(entries, today) == TodayStreakFrom(entries, Len(entries), today)

ZeroSummary ==
    [totalExercises |-> 0, averageAccuracy |-> [num |-> 0, den |-> 1], bestScore |-> 0,
     progressCount |-> 0, correctCount |-> 0, incorrectCount |-> 0, streak |-> 0]

\* POST /progress, lines 111-148: the summary over the whole array
Summary(entries) ==
    [totalExercises |-> SumExercises(entries),
     averageAccuracy |-> AverageAccuracy(entries),
     bestScore |-> BestScore(entries),
     progressCount |-> Len(entries),
     correctCount |-> CountAcc(entries, Pct(100)),
     incorrectCount |-> CountAcc(entries, 0),
     streak |-> Streak(entries)]

\* GET /progress/analytics/:userId, lines 173-223: counts and streak of today
TodaySummary(entries, today) ==
    [totalExercises |-> SumExercises(entries),
     averageAccuracy |-> AverageAccuracy(entries),
     bestScore |-> BestScore(entries),
     progressCount |-> Len(Todays(entries, today)),
     correctCount |-> CountAcc(Todays(entries, today), Pct(100)),
     incorrectCount |-> CountAcc(Todays(entries, today), 0),
     streak |-> TodayStreak(entries, today)]

-----------------------------------------------------------------------------
(* The store: mongoose's User model *)

\* User.findOne({ username }): the _id of the document, 0 for null
FindOne(username) ==
    IF \E i \in 1..Len(users) : users[i].username = username
    THEN CHOOSE i \in 1..Len(users) :
            /\ users[i].username = username
            /\ \A j \in 1..Len(users) : users[j].username = username => i <= j
    ELSE 0

\* User.findById(id): is there such a document?
FindById(id) == id \in 1..Len(users)

\* mutant: a collection without the unique index
UniqueIndexAbsent(username) == FALSE

\* userSchema, username: { unique: true }: the unique index refuses the insert
\* of a second document with a username (E11000)
UniqueIndexRefuses(username) == \E i \in 1..Len(users) : users[i].username = username

\* mutant: a schema with versionKey: false, whose saves carry no __v clause
VersionNeverConflicts(id, doc) == FALSE

\* userSchema keeps mongoose's default versionKey (__v).  A save that $sets a
\* whole array goes out as update({ _id, __v: doc.__v }, { $set, $inc: { __v: 1 } });
\* the document having another __v by then, nothing matches and save() throws
\* VersionError.
VersionConflict(id, doc) == users[id].v # doc.v

-----------------------------------------------------------------------------
(* Requests and responses *)

Reply(status, message) ==
    [status |-> status, message |-> message, userId |-> 0,
     hasProgress |-> FALSE, progress |-> <<>>,
     hasAnalytics |-> FALSE, analytics |-> ZeroSummary]

NoRes == Reply(0, "")

IdleReq ==
    [op |-> "idle", pc |-> "idle", tok |-> NoToken, username |-> "", password |-> "",
     pd |-> NoPd, userId |-> 0, id |-> 0, doc |-> NoDoc, at |-> 0, seq |-> 0,
     res |-> NoRes]

Free(r) == reqs[r].pc \in {"idle", "done"}

Done(req, res) == [req EXCEPT !.pc = "done", !.res = res]

-----------------------------------------------------------------------------
(* POST /signup, lines 15-39 *)

\* lines 17-26: the body check and the findOne
PostSignupFind(r, username, password) ==
    /\ Free(r)
    /\ LET req == [IdleReq EXCEPT !.op = "signup", !.username = username,
                                  !.password = password]
       IN reqs' = [reqs EXCEPT ![r] =
            IF username = "" \/ password = ""
            THEN Done(req, Reply(400, "Username and password required"))
            ELSE IF FindOne(username) # 0
            THEN Done(req, Reply(400, "Username already exists"))
            ELSE [req EXCEPT !.pc = "save"]]
    /\ UNCHANGED <<users, tokens, now, log>>

\* lines 28-34: the hash, newUser.save() and the answer
PostSignupSave(r, salt) ==
    /\ reqs[r].op = "signup"
    /\ reqs[r].pc = "save"
    /\ IF UniqueIndexRefuses(reqs[r].username)
       THEN /\ reqs' = [reqs EXCEPT ![r] = Done(@, Reply(500, "Server error"))]
            /\ UNCHANGED <<users, log>>
       ELSE /\ Len(users) < MaxUsers
            /\ users' = Append(users, NewUser(reqs[r].username,
                                              Hash(reqs[r].password, salt)))
            /\ log' = Append(log, <<>>)
            /\ reqs' = [reqs EXCEPT ![r] =
                 Done([@ EXCEPT !.id = Len(users) + 1],
                      [Reply(201, "User registered successfully")
                         EXCEPT !.userId = Len(users) + 1])]
    /\ UNCHANGED <<tokens, now>>

-----------------------------------------------------------------------------
(* POST /login, lines 46-76 *)

PostLogin(r, username, password) ==
    /\ Free(r)
    /\ LET req == [IdleReq EXCEPT !.op = "login", !.username = username,
                                  !.password = password]
           id == FindOne(username)
       IN IF username = "" \/ password = ""
          THEN /\ reqs' = [reqs EXCEPT ![r] =
                     Done(req, Reply(400, "Username and password required"))]
               /\ UNCHANGED tokens
          ELSE IF id = 0 \/ ~Compare(password, users[id].password)
          THEN /\ reqs' = [reqs EXCEPT ![r] =
                     Done(req, Reply(401, "Invalid username or password"))]
               /\ UNCHANGED tokens
          ELSE /\ tokens' = tokens \cup {Sign(id, users[id].username)}
               /\ reqs' = [reqs EXCEPT ![r] =
                     Done([req EXCEPT !.id = id, !.tok = Sign(id, users[id].username)],
                          [Reply(200, "Login successful") EXCEPT !.userId = id])]
    /\ UNCHANGED <<users, now, log>>

\* the hour of a token's validity passes
Expire(tok) ==
    /\ tok \in tokens
    /\ ~tok.expired
    /\ tokens' = (tokens \ {tok}) \cup {[tok EXCEPT !.expired = TRUE]}
    /\ UNCHANGED <<users, now, reqs, log>>

\* the clock advances
Tick ==
    /\ now < MaxNow
    /\ now' = now + 1
    /\ UNCHANGED <<users, tokens, reqs, log>>

\* the clock reaches the start of the next day
Midnight ==
    /\ (IsoDay(now) + 1) * TicksPerDay <= MaxNow
    /\ now' = (IsoDay(now) + 1) * TicksPerDay
    /\ UNCHANGED <<users, tokens, reqs, log>>

-----------------------------------------------------------------------------
(* POST /progress, lines 81-154 *)

\* lines 86-93
InvalidProgressData(pd) ==
    \/ ~pd.present
    \/ pd.completedExercises.t # "number"
    \/ pd.accuracy.t # "number"
    \/ pd.completedExercises.v < 0
    \/ pd.accuracy.v < 0
    \/ pd.accuracy.v > Pct(100)

\* mutant: slice(-10) where the code has slice(-9)
AppendTrimKeepsTen(progress, entry) == Append(SliceLast(progress, Cap), entry)

\* line 104: [...user.progress.slice(-9), progressData]
AppendTrim(progress, entry) == Append(SliceLast(progress, Keep), entry)

\* verifyToken, lines 83-104: the body check, the findById and the assignment
\* to user.progress
PostProgressFind(r, tok, pd) ==
    /\ Free(r)
    /\ LET req == [IdleReq EXCEPT !.op = "progress", !.tok = tok, !.pd = pd,
                                  !.id = tok.userId]
       IN reqs' = [reqs EXCEPT ![r] =
            IF VerifyStatus(tok) # 0
            THEN Done(req, Reply(VerifyStatus(tok), VerifyMessage(tok)))
            ELSE IF InvalidProgressData(pd)
            THEN Done(req, Reply(400, "Invalid progress data. Check values."))
            ELSE IF ~FindById(tok.userId)
            THEN Done(req, Reply(404, "User not found"))
            ELSE [req EXCEPT !.pc = "save", !.at = now,
                    !.doc = [users[tok.userId] EXCEPT !.progress =
                               AppendTrim(@, CastEntry(pd, now))]]]
    /\ UNCHANGED <<users, tokens, now, log>>

\* line 105: user.save(): validation, then the versioned update of `progress`
PostProgressSave(r) ==
    /\ reqs[r].op = "progress"
    /\ reqs[r].pc = "save"
    /\ LET id == reqs[r].id
           doc == reqs[r].doc
       IN IF \/ ~CastOk(reqs[r].pd)
             \/ ~ProgressValid(doc.progress)
             \/ VersionConflict(id, doc)
          THEN /\ reqs' = [reqs EXCEPT ![r] = Done(@, Reply(500, "Server error"))]
               /\ UNCHANGED <<users, log>>
          ELSE /\ users' = [users EXCEPT ![id].progress = doc.progress,
                                         ![id].v = @ + 1]
               /\ log' = [log EXCEPT ![id] = Append(@, CastEntry(reqs[r].pd, reqs[r].at))]
               /\ reqs' = [reqs EXCEPT ![r].pc = "respond", ![r].doc.v = @ + 1,
                                       ![r].seq = Len(log[id]) + 1]
    /\ UNCHANGED <<tokens, now>>

\* lines 107-149: the handler resumes, recomputes the analytics and answers
PostProgressRespond(r) ==
    /\ reqs[r].op = "progress"
    /\ reqs[r].pc = "respond"
    /\ reqs' = [reqs EXCEPT ![r] =
         Done(@, [Reply(200, "Progress updated successfully")
                    EXCEPT !.hasProgress = TRUE, !.progress = reqs[r].doc.progress,
                           !.hasAnalytics = TRUE,
                           !.analytics = Summary(reqs[r].doc.progress)])]
    /\ UNCHANGED <<users, tokens, now, log>>

-----------------------------------------------------------------------------
(* GET /progress/analytics/:userId, lines 161-228 *)

\* mutant: the handler without its check of the token's subject
ForbiddenNever(tok, userId) == FALSE

\* line 164: req.user.userId !== req.params.userId
Forbidden(tok, userId) == tok.userId # userId

GetAnalytics(r, tok, userId) ==
    /\ Free(r)
    /\ LET req == [IdleReq EXCEPT !.op = "analytics", !.tok = tok, !.userId = userId,
                                  !.at = now]
       IN reqs' = [reqs EXCEPT ![r] =
            IF VerifyStatus(tok) # 0
            THEN Done(req, Reply(VerifyStatus(tok), VerifyMessage(tok)))
            ELSE IF Forbidden(tok, userId)
            THEN Done(req, Reply(403, "Unauthorized access to analytics."))
            ELSE IF ~FindById(userId)
            THEN Done(req, Reply(404, "User not found"))
            ELSE IF DateThrows(users[userId].progress)
            THEN Done(req, Reply(500, "Server error"))
            ELSE Done([req EXCEPT !.id = userId, !.doc = users[userId]],
                      [Reply(200, "") EXCEPT !.hasAnalytics = TRUE,
                         !.analytics = TodaySummary(users[userId].progress, IsoDay(now))])]
    /\ UNCHANGED <<users, tokens, now, log>>

-----------------------------------------------------------------------------
(* POST /forgot-password, lines 231-255 *)

\* lines 233-242: the body check and the findOne
PostForgotFind(r, username, newPassword) ==
    /\ Free(r)
    /\ LET req == [IdleReq EXCEPT !.op = "forgot", !.username = username,
                                  !.password = newPassword]
           id == FindOne(username)
       IN reqs' = [reqs EXCEPT ![r] =
            IF username = "" \/ newPassword = ""
            THEN Done(req, Reply(400, "Username and new password are required."))
            ELSE IF id = 0
            THEN Done(req, Reply(404, "User not found."))
            ELSE [req EXCEPT !.pc = "save", !.id = id, !.doc = users[id]]]
    /\ UNCHANGED <<users, tokens, now, log>>

\* mutant: a save that writes the whole document as the handler holds it
SavedWholeDocument(doc, stored) == doc

\* what user.save() writes: only the modified path `password` is $set
SavedPassword(doc, stored) == [stored EXCEPT !.password = doc.password]

\* lines 244-250: the hash, user.save() and the answer
PostForgotSave(r, salt) ==
    /\ reqs[r].op = "forgot"
    /\ reqs[r].pc = "save"
    /\ LET id == reqs[r].id
           doc == [reqs[r].doc EXCEPT !.password = Hash(reqs[r].password, salt)]
       IN /\ users' = [users EXCEPT ![id] = SavedPassword(doc, @)]
          /\ reqs' = [reqs EXCEPT ![r] =
               Done([@ EXCEPT !.doc = doc], Reply(200, "Password updated successfully."))]
    /\ UNCHANGED <<tokens, now, log>>

-----------------------------------------------------------------------------
(* The state after construction: an empty collection, no request *)

Slots == {1, 2}

Init ==
    /\ users = <<>>
    /\ tokens = {}
    /\ now = 0
    /\ reqs = [r \in Slots |-> IdleReq]
    /\ log = <<>>

-----------------------------------------------------------------------------
(* Request bodies the specifications draw from *)

One == Unit

\* a perfect entry, every optional field left to its default
P100 == Pd(Num(One), Num(Pct(100)), Undefined, Undefined, Undefined)
\* a failed entry
P0 == Pd(Num(0), Num(0), Undefined, Undefined, Undefined)
\* an entry that is neither, with a score and a level
P90 == Pd(Num(One + One), Num(Pct(90)), Num(Pct(5)), Num(One + One), Undefined)

\* 1 + 1/Unit completed exercises: a number, not below 0, not an integer
PFrac == Pd(Num(One + 1), Num(Pct(100)), Undefined, Undefined, Undefined)
\* a score below the schema's min
PBadScore == Pd(Num(One), Num(Pct(100)), Num(0 - 1), Undefined, Undefined)

\* bodies the check of lines 86-93 is there for
InvalidBodies ==
    {NoPd,
     Pd(Str, Num(Pct(100)), Undefined, Undefined, Undefined),
     Pd(Num(One), Undefined, Undefined, Undefined, Undefined),
     Pd(Num(0 - 1), Num(Pct(100)), Undefined, Undefined, Undefined),
     Pd(Num(One), Num(0 - 1), Undefined, Undefined, Undefined),
     Pd(Num(One), Num(Pct(100) + 1), Undefined, Undefined, Undefined)}


\* a perfect entry dated by the client at timestamp 0
P100Old == Pd(Num(One), Num(Pct(100)), Undefined, Undefined, Num(0))
\* an entry whose lastUpdated is an explicit null: no default is applied
PNullDate == Pd(Num(One), Num(Pct(100)), Undefined, Undefined, Null)

-----------------------------------------------------------------------------
(* SpecCap: one user, one request at a time, up to CapSubmits submissions *)

CapBodies == {P100, P0}

HasRoom(tok, n) == FindById(tok.userId) => Len(log[tok.userId]) < n

NextCap ==
    \/ PostSignupFind(1, "a", "p")
    \/ PostSignupSave(1, 1)
    \/ PostLogin(1, "a", "p")
    \/ \E tok \in tokens, pd \in CapBodies :
          HasRoom(tok, CapSubmits) /\ PostProgressFind(1, tok, pd)
    \/ PostProgressSave(1)
    \/ PostProgressRespond(1)
    \/ \E tok \in tokens : GetAnalytics(1, tok, tok.userId)
    \/ Midnight

SpecCap == Init /\ [][NextCap]_vars

-----------------------------------------------------------------------------
(* SpecAnalytics: one user, one request at a time, the clock running, bodies
   of every accuracy class, with and without a lastUpdated of the client's *)

AnalyticsBodies == {P100, P0, P90, P100Old, PNullDate}

NextAnalytics ==
    \/ PostSignupFind(1, "a", "p")
    \/ PostSignupSave(1, 1)
    \/ PostLogin(1, "a", "p")
    \/ \E tok \in tokens, pd \in AnalyticsBodies :
          HasRoom(tok, MaxHist) /\ PostProgressFind(1, tok, pd)
    \/ PostProgressSave(1)
    \/ PostProgressRespond(1)
    \/ \E tok \in tokens : GetAnalytics(1, tok, tok.userId)
    \/ Tick

SpecAnalytics == Init /\ [][NextAnalytics]_vars

-----------------------------------------------------------------------------
(* SpecValidate: one user, one request at a time, bodies that the check of
   POST /progress or the schema refuses among bodies that pass *)

ValidateBodies == {P100, P0, P90, PFrac, PBadScore} \cup InvalidBodies

NextValidate ==
    \/ PostSignupFind(1, "a", "p")
    \/ PostSignupSave(1, 1)
    \/ PostLogin(1, "a", "p")
    \/ \E tok \in tokens \cup {NoToken}, pd \in ValidateBodies :
          HasRoom(tok, ValHist) /\ PostProgressFind(1, tok, pd)
    \/ PostProgressSave(1)
    \/ PostProgressRespond(1)

SpecValidate == Init /\ [][NextValidate]_vars

-----------------------------------------------------------------------------
(* SpecAuth: two users, one request at a time, tokens that are absent,
   forged, expired or valid, GET analytics for any user id *)

Names == {"a", "b"}

AuthBodies == {P100, P0}

NextAuth ==
    \/ \E u \in Names : PostSignupFind(1, u, "p")
    \/ PostSignupSave(1, 1)
    \/ \E u \in Names, pw \in {"p", "x"} : PostLogin(1, u, pw)
    \/ \E tok \in tokens : Expire(tok)
    \/ \E tok \in tokens \cup {NoToken, BadToken}, pd \in AuthBodies :
          HasRoom(tok, AuthHist) /\ PostProgressFind(1, tok, pd)
    \/ PostProgressSave(1)
    \/ PostProgressRespond(1)
    \/ \E tok \in tokens \cup {NoToken, BadToken}, id \in 1..MaxUsers :
          GetAnalytics(1, tok, id)

SpecAuth == Init /\ [][NextAuth]_vars

-----------------------------------------------------------------------------
(* SpecConc: two requests at a time, their steps interleaved in any order *)

ConcBodies == {P100, P0}

NextConc ==
    \E r \in Slots :
        \/ \E u \in Names \cup {""} : PostSignupFind(r, u, "p")
        \/ PostSignupSave(r, 1)
        \/ PostLogin(r, "a", "p")
        \/ \E tok \in tokens, pd \in ConcBodies :
              HasRoom(tok, ConcHist) /\ PostProgressFind(r, tok, pd)
        \/ PostProgressSave(r)
        \/ PostProgressRespond(r)
        \/ \E u \in Names : PostForgotFind(r, u, "q")
        \/ PostForgotSave(r, 2)

SpecConc == Init /\ [][NextConc]_vars

-----------------------------------------------------------------------------
(* Vocabulary of the claims *)

Min2(a, b) == IF a < b THEN a ELSE b

UserIds == 1..Len(users)

\* a handler that has answered
Answered(r, op) == reqs[r].op = op /\ reqs[r].pc = "done"

\* a handler that has answered 200
Succeeded(r, op) == Answered(r, op) /\ reqs[r].res.status = 200

\* the entries a successful answer was computed from
EntriesOf(r) == reqs[r].doc.progress

Perfect(e) == e.accuracy = Pct(100)

\* the number of newest entries that are all perfect, the entry before them not
SuffixStreak(entries) ==
    CHOOSE k \in 0..Len(entries) :
        /\ \A i \in (Len(entries) - k + 1)..Len(entries) : Perfect(entries[i])
        /\ k < Len(entries) => ~Perfect(entries[Len(entries) - k])

-----------------------------------------------------------------------------
\* C1: after N successful submissions of one user, applied one after another,
\* the stored history has length min(N, 10) and is exactly the last min(N, 10)
\* submitted entries in submission order; no stored history is ever longer
\* than 10.
C1_LastTenInOrder ==
    \A id \in UserIds :
        LET h == users[id].progress
            n == Len(log[id])
        IN /\ Len(h) = Min2(n, Cap)
           /\ Len(h) <= Cap
           /\ \A i \in 1..Len(h) : h[i] = log[id][n - Len(h) + i]

\* eleven submissions went in, the first two of them different: the oldest
\* entry has been evicted
C1_Witness ==
    \E id \in UserIds :
        /\ Len(log[id]) = Cap + 1
        /\ log[id][1] # log[id][2]
        /\ users[id].progress[1] = log[id][2]

-----------------------------------------------------------------------------
\* C5: whatever the streak of the history before (0 to 10), a successful
\* submission of an entry whose accuracy is not 100 is answered with streak 0,
\* and so is a GET analytics that reads the history while that entry is its
\* newest.
C5_StreakResets ==
    \A r \in Slots :
        (/\ Succeeded(r, "progress") \/ Succeeded(r, "analytics")
         /\ EntriesOf(r) # <<>>
         /\ ~Perfect(EntriesOf(r)[Len(EntriesOf(r))]))
        => reqs[r].res.analytics.streak = 0

\* a GET analytics answers streak 0 right after an imperfect entry followed ten
\* perfect ones (a streak of 10)
C5_Witness ==
    \E r \in Slots :
        /\ Succeeded(r, "analytics")
        /\ reqs[r].res.analytics.streak = 0
        /\ LET lg == log[reqs[r].id]
           IN /\ Len(lg) = Cap + 1
              /\ \A i \in 1..Cap : Perfect(lg[i])
              /\ ~Perfect(lg[Cap + 1])
              /\ EntriesOf(r) = users[reqs[r].id].progress

-----------------------------------------------------------------------------
\* C10: every summary answered by POST /progress or GET analytics has
\* streak <= correctCount <= progressCount <= 10 and
\* correctCount + incorrectCount <= progressCount.
C10_SummaryBounds ==
    \A r \in Slots :
        (reqs[r].pc = "done" /\ reqs[r].res.hasAnalytics) =>
            LET a == reqs[r].res.analytics
            IN /\ a.streak <= a.correctCount
               /\ a.correctCount <= a.progressCount
               /\ a.progressCount <= Cap
               /\ a.correctCount + a.incorrectCount <= a.progressCount

\* a GET analytics on the second day over a full history: entries of the first
\* day are left out of the counts, a perfect one and a failed one are counted
C10_Witness ==
    \E r \in Slots :
        /\ Succeeded(r, "analytics")
        /\ Len(EntriesOf(r)) = Cap
        /\ reqs[r].res.analytics.progressCount < Cap
        /\ reqs[r].res.analytics.streak >= 1
        /\ reqs[r].res.analytics.incorrectCount >= 1

-----------------------------------------------------------------------------
\* a body the contract of submit refuses: completedExercises not a non-negative
\* integer, or accuracy not a number in [0, 100]
Refused(pd) ==
    \/ ~pd.present
    \/ pd.completedExercises.t # "number"
    \/ pd.completedExercises.v < 0
    \/ pd.completedExercises.v % Unit # 0
    \/ pd.accuracy.t # "number"
    \/ pd.accuracy.v < 0
    \/ pd.accuracy.v > Pct(100)

WithinContract(e) ==
    /\ e.completedExercises >= 0
    /\ e.completedExercises % Unit = 0
    /\ e.accuracy >= 0
    /\ e.accuracy <= Pct(100)

\* C3: an authenticated POST /progress whose body has a completedExercises that
\* is not a non-negative integer, or an accuracy that is not a number in
\* [0, 100], is answered 400 without going on to the save, and no stored history
\* holds such an entry.
C3_RefusedBodiesRejected ==
    /\ \A r \in Slots :
          (reqs[r].op = "progress" /\ VerifyStatus(reqs[r].tok) = 0 /\ Refused(reqs[r].pd))
          => (reqs[r].pc = "done" /\ reqs[r].res.status = 400)
    /\ \A id \in UserIds : \A i \in 1..Len(users[id].progress) :
          WithinContract(users[id].progress[i])

-----------------------------------------------------------------------------
Accuracies(h) == [i \in 1..Len(h) |-> h[i].accuracy]

\* C4: the summary answered by a successful POST /progress is computed over the
\* whole updated history, which ends with the submitted entry: streak is the
\* number of newest entries that are all perfect, correctCount the number of
\* entries with accuracy 100, incorrectCount the number with accuracy 0,
\* progressCount the length; accuracies [100, 100, 90, 100] give 1, 3, 0, 4.
C4_SubmitSummary ==
    \A r \in Slots :
        Succeeded(r, "progress") =>
            LET h == reqs[r].res.progress
                a == reqs[r].res.analytics
            IN /\ h = users[reqs[r].id].progress
               /\ h # <<>>
               /\ h[Len(h)] = CastEntry(reqs[r].pd, reqs[r].at)
               /\ a.streak = SuffixStreak(h)
               /\ a.correctCount = Cardinality({i \in 1..Len(h) : Perfect(h[i])})
               /\ a.incorrectCount = Cardinality({i \in 1..Len(h) : h[i].accuracy = 0})
               /\ a.progressCount = Len(h)
               /\ Accuracies(h) = <<Pct(100), Pct(100), Pct(90), Pct(100)>>
                  => /\ a.streak = 1
                     /\ a.correctCount = 3
                     /\ a.incorrectCount = 0
                     /\ a.progressCount = 4

\* scenario A has been submitted and answered
C4_Witness ==
    \E r \in Slots :
        /\ Succeeded(r, "progress")
        /\ Accuracies(reqs[r].res.progress) = <<Pct(100), Pct(100), Pct(90), Pct(100)>>

-----------------------------------------------------------------------------
\* dated on the reference day
OnDay(e, today) == IsoDay(e.lastUpdated.v) = today

\* the length of the longest suffix whose entries are all of the day and perfect
DaySuffixStreak(h, today) ==
    CHOOSE k \in 0..Len(h) :
        /\ \A i \in (Len(h) - k + 1)..Len(h) : OnDay(h[i], today) /\ Perfect(h[i])
        /\ k < Len(h) => ~(OnDay(h[Len(h) - k], today) /\ Perfect(h[Len(h) - k]))

RECURSIVE Total(_, _)
Total(h, field) == IF h = <<>> THEN 0 ELSE Head(h)[field] + Total(Tail(h), field)

Greatest(S) == CHOOSE m \in S : \A x \in S : x <= m

\* C6: in the summary of GET analytics, streak is the length of the longest
\* suffix of the history whose entries are all dated on the reference day and
\* perfect (the scan stops at an entry of another day even if it is perfect);
\* correctCount, incorrectCount and progressCount count entries of the
\* reference day only; totalExercises, averageAccuracy and bestScore are over
\* all entries.
C6_TodaySummary ==
    \A r \in Slots :
        Succeeded(r, "analytics") =>
            LET h == EntriesOf(r)
                today == IsoDay(reqs[r].at)
                a == reqs[r].res.analytics
                day == {i \in 1..Len(h) : OnDay(h[i], today)}
            IN /\ a.streak = DaySuffixStreak(h, today)
               /\ a.correctCount = Cardinality({i \in day : Perfect(h[i])})
               /\ a.incorrectCount = Cardinality({i \in day : h[i].accuracy = 0})
               /\ a.progressCount = Cardinality(day)
               /\ a.totalExercises = Total(h, "completedExercises")
               /\ a.averageAccuracy.num = Total(h, "accuracy")
               /\ a.averageAccuracy.den = (IF h = <<>> THEN 1 ELSE Len(h))
               /\ a.bestScore = Greatest({0} \cup {h[i].score : i \in 1..Len(h)})

\* the scan stopped at a perfect entry of another day, after counting one of
\* the reference day; an entry of another day carries exercises and a score
C6_Witness ==
    \E r \in Slots :
        /\ Succeeded(r, "analytics")
        /\ LET h == EntriesOf(r)
               today == IsoDay(reqs[r].at)
               a == reqs[r].res.analytics
           IN /\ a.streak >= 1
              /\ a.streak < Len(h)
              /\ Perfect(h[Len(h) - a.streak])
              /\ ~OnDay(h[Len(h) - a.streak], today)
              /\ a.progressCount < Len(h)
              /\ a.bestScore > 0

-----------------------------------------------------------------------------
\* C7: a GET analytics whose token is valid and whose subject is not the
\* requested user is answered 403 with nothing but the message, whatever the
\* histories of the two users; a summary is answered only to a token whose
\* subject is the requested user.
C7_OnlyOwnAnalytics ==
    \A r \in Slots :
        Answered(r, "analytics") =>
            /\ (VerifyStatus(reqs[r].tok) = 0 /\ reqs[r].tok.userId # reqs[r].userId)
               => /\ reqs[r].res = Reply(403, "Unauthorized access to analytics.")
                  /\ reqs[r].doc = NoDoc
            /\ (reqs[r].res.hasAnalytics \/ reqs[r].res.hasProgress)
               => /\ VerifyStatus(reqs[r].tok) = 0
                  /\ reqs[r].tok.userId = reqs[r].userId
                  /\ reqs[r].doc = users[reqs[r].userId]

\* a valid token of one user asked for another user, who has a history
C7_Witness ==
    \E r \in Slots :
        /\ Answered(r, "analytics")
        /\ VerifyStatus(reqs[r].tok) = 0
        /\ reqs[r].userId \in UserIds
        /\ reqs[r].tok.userId # reqs[r].userId
        /\ users[reqs[r].userId].progress # <<>>
        /\ users[reqs[r].tok.userId].progress # users[reqs[r].userId].progress
        /\ reqs[r].res.status = 403

-----------------------------------------------------------------------------
\* a POST /progress whose save the store has applied
Saved(r) ==
    /\ reqs[r].op = "progress"
    /\ reqs[r].pc = "respond" \/ (reqs[r].pc = "done" /\ reqs[r].res.status = 200)

\* the entry a POST /progress submits
Submitted(r) == CastEntry(reqs[r].pd, reqs[r].at)

\* C2: of two POST /progress of one user that both succeed, however their
\* steps interleave, neither update is lost: when theirs are the two latest
\* successful submissions of the user, the stored history holds both entries as
\* its two newest elements.
C2_NoLostUpdate ==
    \A r1 \in Slots : \A r2 \in Slots \ {r1} :
        (/\ Saved(r1) /\ Saved(r2)
         /\ reqs[r1].id = reqs[r2].id
         /\ reqs[r2].seq = reqs[r1].seq + 1
         /\ reqs[r2].seq = Len(log[reqs[r2].id]))
        => LET h == users[reqs[r1].id].progress
           IN /\ Len(h) >= 2
              /\ h[Len(h)] = Submitted(r2)
              /\ h[Len(h) - 1] = Submitted(r1)

\* two POST /progress of one user in flight together, the saves of both applied,
\* neither answered yet
C2_Witness ==
    \E r1 \in Slots : \E r2 \in Slots \ {r1} :
        /\ reqs[r1].op = "progress" /\ reqs[r1].pc = "respond"
        /\ reqs[r2].op = "progress" /\ reqs[r2].pc = "respond"
        /\ reqs[r1].id = reqs[r2].id
        /\ Submitted(r1) # Submitted(r2)

\* the other interleaving: both handlers read the user before either save; the
\* second save is refused (VersionError) and its handler answers 500
C2_ConflictAnswered500 ==
    \E r1 \in Slots : \E r2 \in Slots \ {r1} :
        /\ Saved(r1)
        /\ Answered(r2, "progress") /\ reqs[r2].res.status = 500
        /\ reqs[r1].id = reqs[r2].id
        /\ reqs[r2].doc.v + 1 = reqs[r1].doc.v
        /\ ProgressValid(reqs[r2].doc.progress)

-----------------------------------------------------------------------------
\* slot r starts a handler of route op in this step
Starts(r, op) == Free(r) /\ reqs'[r] # reqs[r] /\ reqs'[r].op = op

\* slot r answers in this step
Answers(r, op) == reqs'[r] # reqs[r] /\ reqs'[r].op = op /\ reqs'[r].pc = "done"

Registered(username) == \E i \in UserIds : users[i].username = username

UniqueUsernames ==
    \A i \in UserIds : \A j \in UserIds : users[i].username = users[j].username => i = j

C8_Step ==
    \A r \in Slots :
        /\ (Starts(r, "signup") /\ reqs'[r].password # "" /\ Registered(reqs'[r].username))
           => /\ reqs'[r].pc = "done"
              /\ reqs'[r].res = Reply(400, "Username already exists")
        /\ (reqs'[r] # reqs[r] /\ reqs'[r].op = "signup" /\ reqs'[r].res.status # 201)
           => users' = users
        /\ (Answers(r, "signup") /\ reqs'[r].res.status = 201)
           => /\ ~Registered(reqs'[r].username)
              /\ users' = Append(users, users'[Len(users')])
              /\ users'[Len(users')].username = reqs'[r].username
              /\ users'[Len(users')].progress = <<>>
              /\ Compare(reqs'[r].password, users'[Len(users')].password)

\* C8: no two users ever share a username; a signup for a username that is
\* registered is answered 400 'Username already exists'; a signup that fails
\* creates no user and changes none; one that succeeds adds one user, with an
\* empty history, and changes no other; under every interleaving of signups.
C8_UniqueUsernames == [](UniqueUsernames) /\ [][C8_Step]_vars

\* one signup refused because the username is registered, another that lost a
\* race for its username to a concurrent signup and was refused by the index
C8_Witness ==
    /\ Len(users) = 2
    /\ \E r1 \in Slots : \E r2 \in Slots \ {r1} :
          /\ Answered(r1, "signup")
          /\ reqs[r1].res = Reply(400, "Username already exists")
          /\ Answered(r2, "signup")
          /\ reqs[r2].res.status = 500
          /\ Registered(reqs[r2].username)

-----------------------------------------------------------------------------
C9_Step ==
    \A r \in Slots :
        /\ (Starts(r, "forgot") /\ reqs'[r].username # "" /\ reqs'[r].password # ""
              /\ ~Registered(reqs'[r].username))
           => /\ reqs'[r].pc = "done"
              /\ reqs'[r].res = Reply(404, "User not found.")
        /\ (reqs'[r] # reqs[r] /\ reqs'[r].op = "forgot" /\ reqs'[r].res.status # 200)
           => users' = users
        /\ (Answers(r, "forgot") /\ reqs'[r].res.status = 200)
           => \E id \in UserIds :
                 /\ users[id].username = reqs'[r].username
                 /\ Compare(reqs'[r].password, users'[id].password)
                 /\ users' = [users EXCEPT ![id].password = users'[id].password]

\* C9: a forgot-password for a username that is not registered is answered 404
\* and no stored password or history changes; one that succeeds changes the
\* password hash of the named user and nothing else.
C9_ResetFrame == [][C9_Step]_vars

\* a reset has succeeded for a user whose history grew between the handler's
\* read and its save; the other user is registered
C9_Witness ==
    \E r \in Slots :
        /\ Succeeded(r, "forgot")
        /\ Len(users) = 2
        /\ users[reqs[r].id].progress # reqs[r].doc.progress
        /\ users[reqs[r].id].password = reqs[r].doc.password

=============================================================================
